---- MODULE Spec2Model ----
(***************************************************************************)
(* Model of the Scatter component of x-charts                              *)
(* (packages/x-charts/src/ScatterChart/Scatter.tsx).                       *)
(*                                                                         *)
(* State: the props of the mounted component, the interaction context it   *)
(* reads, the two useMemo cells React keeps for it between render passes,  *)
(* the circle markers of the last render pass, and the calls made to       *)
(* onItemClick by the last event.  Every step that changes a prop or the   *)
(* context is followed, in the same action, by the render pass React runs  *)
(* for it.                                                                 *)
(*                                                                         *)
(* Numbers: radius and opacity are kept in tenths (1.2 -> 12, 0.3 -> 3).   *)
(* Objects are immutable values (React props are read-only), so two        *)
(* references are taken to be identical when their values are equal; the   *)
(* one object whose identity is modelled apart from its value is the       *)
(* closure returned by useInteractionItemProps.                            *)
(***************************************************************************)
EXTENDS Integers, Sequences, FiniteSets, TLC

VARIABLES
  series,                 \* props.series: [id, data, highlightScope, disableHover]
  xScale, yScale,         \* props.xScale, props.yScale
  markerSize, color,      \* props.markerSize, props.color
  onItemClick,            \* props.onItemClick: TRUE when supplied
  item,                   \* InteractionContext.item
  useVoronoiInteraction,  \* InteractionContext.useVoronoiInteraction
  highlightScopeMemo,     \* useMemo cell of line 44: [deps, value]
  cleanDataMemo,          \* useMemo cell of line 54: [deps, value]
  recomputed,             \* whether the last render pass ran the cleanData factory
  markers,                \* the <circle/> elements of the last render pass
  clickCalls,             \* calls of onItemClick made by the last event
  lastOp,                 \* the last operation: [op, marker]
  varying                 \* the inputs the surrounding chart changes in this run

vars == <<series, xScale, yScale, markerSize, color, onItemClick, item,
          useVoronoiInteraction, highlightScopeMemo, cleanDataMemo,
          recomputed, markers, clickCalls, lastOp, varying>>

(***************************************************************************)
(* Bounds and input sets.                                                  *)
(***************************************************************************)
MaxLen == 2

Points ==
  { [x |-> 0, y |-> 0, id |-> "a"],
    [x |-> 1, y |-> 2, id |-> "b"],
    [x |-> 3, y |-> 0, id |-> "c"] }

DataSets == UNION { [1..n -> Points] : n \in 0..MaxLen }

\* ascending, descending and a narrower range
XScales ==
  { [range |-> <<0, 2>>, d0 |-> 0],
    [range |-> <<2, 0>>, d0 |-> 0],
    [range |-> <<1, 2>>, d0 |-> 1] }

YScales ==
  { [range |-> <<2, 0>>, d0 |-> 0],
    [range |-> <<0, 1>>, d0 |-> 0] }

SeriesIds == {"s1", "s2"}
MarkerSizes == {1, 2}
Colors == {"red", "blue"}

\* a field of series.highlightScope: missing, present with value undefined,
\* or present with one of its modes
HighlightedFields == {"absent", "undefined", "none", "item", "series"}
FadedFields == {"absent", "undefined", "none", "series", "global"}
HighlightScopes == [highlighted : HighlightedFields, faded : FadedFields]

NoItem == [type |-> "null", seriesId |-> "", dataIndex |-> 0]
Items ==
  {NoItem} \cup
  [type : {"scatter"}, seriesId : SeriesIds, dataIndex : 0..(MaxLen - 1)]

(***************************************************************************)
(* Collaborators of Scatter that live outside Scatter.tsx.                 *)
(***************************************************************************)
Sgn(n) == IF n > 0 THEN 1 ELSE IF n < 0 THEN -1 ELSE 0

\* a continuous scale without clamping: the domain starts at d0 and one
\* domain unit is one pixel, towards range[2]
ScaleApply(scale, v) ==
  scale.range[1] + Sgn(scale.range[2] - scale.range[1]) * (v - scale.d0)

\* getValueToPositionMapper(scale)(v)
GetValueToPositionMapper(scale, v) == ScaleApply(scale, v)

IsSeriesSelected(selectedItem, currentItem) ==
  /\ selectedItem.type = currentItem.type
  /\ selectedItem.seriesId = currentItem.seriesId

GetIsHighlighted(selectedItem, currentItem, scope) ==
  IF scope.highlighted \in {"undefined", "none"} \/ selectedItem = NoItem
  THEN FALSE
  ELSE IF ~IsSeriesSelected(selectedItem, currentItem) THEN FALSE
  ELSE IF scope.highlighted = "series" THEN TRUE
  ELSE selectedItem.dataIndex = currentItem.dataIndex

GetIsFaded(selectedItem, currentItem, scope) ==
  IF scope.faded \in {"undefined", "none"} \/ selectedItem = NoItem
  THEN FALSE
  ELSE IF scope.faded = "series"
  THEN /\ IsSeriesSelected(selectedItem, currentItem)
       /\ selectedItem.dataIndex # currentItem.dataIndex
  ELSE IF scope.faded = "global"
  THEN \/ ~IsSeriesSelected(selectedItem, currentItem)
       \/ selectedItem.dataIndex # currentItem.dataIndex
  ELSE FALSE

\* useInteractionItemProps(scope, skip): a closure made anew by every call
\* of the hook, so never identical to the one of the render pass before
UseInteractionItemProps(scope, skip, previous) ==
  [ref |-> 1 - previous.ref, skip |-> skip, scope |-> scope]

\* getInteractionItemProps(pointCtx): no props when skipped, else the two
\* pointer-hover handlers of the point
InteractionItemProps(getInteractionItemProps, pointCtx) ==
  IF getInteractionItemProps.skip
  THEN [hover |-> FALSE]
  ELSE [hover |-> TRUE]

(***************************************************************************)
(* Scatter, lines 41-128.                                                  *)
(***************************************************************************)
MathMin(range) == IF range[1] <= range[2] THEN range[1] ELSE range[2]
MathMax(range) == IF range[1] >= range[2] THEN range[1] ELSE range[2]

\* line 45: { highlighted: 'item', faded: 'global', ...series.highlightScope }
\* (object spread copies every own property, one whose value is undefined
\* included)
MergeHighlightScope(scope) ==
  [highlighted |-> IF scope.highlighted = "absent" THEN "item"
                   ELSE scope.highlighted,
   faded |-> IF scope.faded = "absent" THEN "global" ELSE scope.faded]

\* useMemo that never runs its factory again
UseMemoKeep(cell, deps, fresh) == [deps |-> deps, value |-> cell.value]

\* useMemo: the cell's value when every dependency is identical to the one
\* it was computed with, else the factory's result
UseMemo(cell, deps, fresh) ==
  IF cell.deps = deps THEN cell ELSE [deps |-> deps, value |-> fresh]

\* hover handlers skipped only when both flags are set
SkipInteractionHandlersBoth(voronoi, disableHover) == voronoi /\ disableHover

\* line 51
SkipInteractionHandlers(voronoi, disableHover) == voronoi \/ disableHover

\* a range test that leaves the bounds out
IsInRangeStrict(x, y, minXRange, maxXRange, minYRange, maxYRange) ==
  x > minXRange /\ x < maxXRange /\ y > minYRange /\ y < maxYRange

\* line 81
IsInRange(x, y, minXRange, maxXRange, minYRange, maxYRange) ==
  x >= minXRange /\ x <= maxXRange /\ y >= minYRange /\ y <= maxYRange

\* a faded flag that does not look at the highlighted flag
IsFadedFlagUnguarded(isHighlighted, it, pointCtx, scope) ==
  GetIsFaded(it, pointCtx, scope)

\* line 91
IsFadedFlag(isHighlighted, it, pointCtx, scope) ==
  ~isHighlighted /\ GetIsFaded(it, pointCtx, scope)

\* unshift in place of push
PushFront(temp, record) == <<record>> \o temp

\* line 87: temp.push(record)
Push(temp, record) == Append(temp, record)

\* lines 55-99: the factory of cleanData
CleanData(xs, ys, data, seriesId, it, scope, getInteractionItemProps) ==
  LET minXRange == MathMin(xs.range)
      maxXRange == MathMax(xs.range)
      minYRange == MathMin(ys.range)
      maxYRange == MathMax(ys.range)
      temp[n \in 0..Len(data)] ==
        IF n = 0 THEN <<>>
        ELSE
          LET i == n - 1
              scatterPoint == data[n]
              x == GetValueToPositionMapper(xs, scatterPoint.x)
              y == GetValueToPositionMapper(ys, scatterPoint.y)
              pointCtx == [type |-> "scatter", seriesId |-> seriesId,
                           dataIndex |-> i]
              isHighlighted == GetIsHighlighted(it, pointCtx, scope)
          IN IF IsInRange(x, y, minXRange, maxXRange, minYRange, maxYRange)
             THEN Push(temp[n - 1],
                    [x |-> x, y |-> y,
                     isHighlighted |-> isHighlighted,
                     isFaded |-> IsFadedFlag(isHighlighted, it, pointCtx, scope),
                     interactionProps |->
                       InteractionItemProps(getInteractionItemProps, pointCtx),
                     id |-> scatterPoint.id,
                     dataIndex |-> i])
             ELSE temp[n - 1]
  IN temp[Len(data)]

\* a dependency list without item and getInteractionItemProps
CleanDataDepsPartial(xs, ys, data, seriesId, it, scope, getInteractionItemProps) ==
  <<xs, ys, data, seriesId, NoItem, scope,
    [ref |-> 0, skip |-> FALSE, scope |-> scope]>>

\* line 100: the dependency list of cleanData
CleanDataDeps(xs, ys, data, seriesId, it, scope, getInteractionItemProps) ==
  <<xs, ys, data, seriesId, it, scope, getInteractionItemProps>>

\* a radius that forgets markerSize
RadiusUnscaled(dataPoint, size) == IF dataPoint.isHighlighted THEN 12 ELSE 10

\* line 109, in tenths
Radius(dataPoint, size) == (IF dataPoint.isHighlighted THEN 12 ELSE 10) * size

\* line 112, in tenths
Opacity(dataPoint) == IF dataPoint.isFaded THEN 3 ELSE 10

NoHandler == [type |-> "undefined", seriesId |-> "", dataIndex |-> 0]

\* lines 113-121: the identifier the marker's onClick passes on, or no
\* handler
OnClick(supplied, seriesId, dataPoint) ==
  IF supplied
  THEN [type |-> "scatter", seriesId |-> seriesId,
        dataIndex |-> dataPoint.dataIndex]
  ELSE NoHandler

\* lines 105-124: one <circle/>
Circle(dataPoint, size, fill, supplied, seriesId) ==
  [key |-> dataPoint.id,
   r |-> Radius(dataPoint, size),
   x |-> dataPoint.x,
   y |-> dataPoint.y,
   fill |-> fill,
   opacity |-> Opacity(dataPoint),
   onClick |-> OnClick(supplied, seriesId, dataPoint),
   cursor |-> IF supplied THEN "pointer" ELSE "unset",
   hover |-> dataPoint.interactionProps.hover]

\* markers whose click identifier counts the markers, not the data points
CirclesByPosition(cleanData, size, fill, supplied, seriesId) ==
  [k \in 1..Len(cleanData) |->
     Circle([cleanData[k] EXCEPT !.dataIndex = k - 1], size, fill, supplied,
            seriesId)]

\* lines 102-127
Circles(cleanData, size, fill, supplied, seriesId) ==
  [k \in 1..Len(cleanData) |->
     Circle(cleanData[k], size, fill, supplied, seriesId)]

\* one render pass of Scatter with the given props and context
Render(s, xs, ys, size, fill, supplied, it, voronoi) ==
  LET scopeCell == UseMemo(highlightScopeMemo, <<s.highlightScope>>,
                           MergeHighlightScope(s.highlightScope))
      highlightScope == scopeCell.value
      skip == SkipInteractionHandlers(voronoi, s.disableHover)
      getInteractionItemProps ==
        UseInteractionItemProps(highlightScope, skip, cleanDataMemo.deps[7])
      deps == CleanDataDeps(xs, ys, s.data, s.id, it, highlightScope,
                            getInteractionItemProps)
      dataCell == UseMemo(cleanDataMemo, deps,
                          CleanData(xs, ys, s.data, s.id, it, highlightScope,
                                    getInteractionItemProps))
  IN /\ highlightScopeMemo' = scopeCell
     /\ cleanDataMemo' = dataCell
     /\ recomputed' = (cleanDataMemo.deps # deps)
     /\ markers' = Circles(dataCell.value, size, fill, supplied, s.id)
     /\ clickCalls' = <<>>

(***************************************************************************)
(* The state machine.                                                      *)
(***************************************************************************)
NoOp == [op |-> "mount", marker |-> 0]

\* the closure slot of a component that has not rendered yet
Unmounted == [ref |-> 0, skip |-> FALSE, scope |-> MergeHighlightScope(
                [highlighted |-> "absent", faded |-> "absent"])]

\* what a chart may change while Scatter is mounted: its geometry, its
\* highlighting, its styling, its event handling
Scenarios ==
  { {"data", "xScale", "yScale", "id", "onItemClick"},
    {"highlightScope", "item", "markerSize", "color"},
    {"item", "useVoronoiInteraction", "disableHover", "onItemClick"},
    {"data", "xScale", "item"} }

BaseData ==
  << [x |-> 0, y |-> 0, id |-> "a"], [x |-> 1, y |-> 2, id |-> "b"] >>

\* the first render pass: both useMemo cells are filled by their factories
Init ==
  /\ varying \in Scenarios
  /\ series = [id |-> "s1", data |-> BaseData,
               highlightScope |-> [highlighted |-> "absent", faded |-> "absent"],
               disableHover |-> FALSE]
  /\ xScale = [range |-> <<0, 2>>, d0 |-> 0]
  /\ yScale = [range |-> <<2, 0>>, d0 |-> 0]
  /\ markerSize = 1
  /\ color = "red"
  /\ onItemClick = TRUE
  /\ item = NoItem
  /\ useVoronoiInteraction = FALSE
  /\ LET scope == MergeHighlightScope(series.highlightScope)
         skip == SkipInteractionHandlers(useVoronoiInteraction,
                                         series.disableHover)
         getInteractionItemProps ==
           UseInteractionItemProps(scope, skip, Unmounted)
         cleanData == CleanData(xScale, yScale, series.data, series.id, item,
                                scope, getInteractionItemProps)
     IN /\ highlightScopeMemo =
             [deps |-> <<series.highlightScope>>, value |-> scope]
        /\ cleanDataMemo =
             [deps |-> CleanDataDeps(xScale, yScale, series.data, series.id,
                                     item, scope, getInteractionItemProps),
              value |-> cleanData]
        /\ markers = Circles(cleanData, markerSize, color, onItemClick,
                             series.id)
  /\ recomputed = TRUE
  /\ clickCalls = <<>>
  /\ lastOp = NoOp

Changed(input, op) ==
  /\ input \in varying
  /\ lastOp' = [op |-> op, marker |-> 0]

\* the parent renders Scatter with another series.data
SetData ==
  \E d \in DataSets \ {series.data} :
    /\ series' = [series EXCEPT !.data = d]
    /\ Changed("data", "render")
    /\ UNCHANGED <<xScale, yScale, markerSize, color, onItemClick, item,
                   useVoronoiInteraction, varying>>
    /\ Render(series', xScale, yScale, markerSize, color, onItemClick, item,
              useVoronoiInteraction)

\* ... with another series.id
SetSeriesId ==
  \E id \in SeriesIds \ {series.id} :
    /\ series' = [series EXCEPT !.id = id]
    /\ Changed("id", "render")
    /\ UNCHANGED <<xScale, yScale, markerSize, color, onItemClick, item,
                   useVoronoiInteraction, varying>>
    /\ Render(series', xScale, yScale, markerSize, color, onItemClick, item,
              useVoronoiInteraction)

\* ... with another series.highlightScope
SetHighlightScope ==
  \E h \in HighlightScopes \ {series.highlightScope} :
    /\ series' = [series EXCEPT !.highlightScope = h]
    /\ Changed("highlightScope", "render")
    /\ UNCHANGED <<xScale, yScale, markerSize, color, onItemClick, item,
                   useVoronoiInteraction, varying>>
    /\ Render(series', xScale, yScale, markerSize, color, onItemClick, item,
              useVoronoiInteraction)

\* ... with series.disableHover switched
SetDisableHover ==
  /\ series' = [series EXCEPT !.disableHover = ~series.disableHover]
  /\ Changed("disableHover", "render")
  /\ UNCHANGED <<xScale, yScale, markerSize, color, onItemClick, item,
                 useVoronoiInteraction, varying>>
  /\ Render(series', xScale, yScale, markerSize, color, onItemClick, item,
            useVoronoiInteraction)

\* ... with other scales
SetXScale ==
  \E xs \in XScales \ {xScale} :
    /\ xScale' = xs
    /\ Changed("xScale", "render")
    /\ UNCHANGED <<series, yScale, markerSize, color, onItemClick, item,
                   useVoronoiInteraction, varying>>
    /\ Render(series, xScale', yScale, markerSize, color, onItemClick, item,
              useVoronoiInteraction)

SetYScale ==
  \E ys \in YScales \ {yScale} :
    /\ yScale' = ys
    /\ Changed("yScale", "render")
    /\ UNCHANGED <<series, xScale, markerSize, color, onItemClick, item,
                   useVoronoiInteraction, varying>>
    /\ Render(series, xScale, yScale', markerSize, color, onItemClick, item,
              useVoronoiInteraction)

\* ... with another markerSize or color
SetMarkerSize ==
  \E size \in MarkerSizes \ {markerSize} :
    /\ markerSize' = size
    /\ Changed("markerSize", "render")
    /\ UNCHANGED <<series, xScale, yScale, color, onItemClick, item,
                   useVoronoiInteraction, varying>>
    /\ Render(series, xScale, yScale, markerSize', color, onItemClick, item,
              useVoronoiInteraction)

SetColor ==
  \E fill \in Colors \ {color} :
    /\ color' = fill
    /\ Changed("color", "render")
    /\ UNCHANGED <<series, xScale, yScale, markerSize, onItemClick, item,
                   useVoronoiInteraction, varying>>
    /\ Render(series, xScale, yScale, markerSize, color', onItemClick, item,
              useVoronoiInteraction)

\* ... with onItemClick supplied or dropped
SetOnItemClick ==
  /\ onItemClick' = ~onItemClick
  /\ Changed("onItemClick", "render")
  /\ UNCHANGED <<series, xScale, yScale, markerSize, color, item,
                 useVoronoiInteraction, varying>>
  /\ Render(series, xScale, yScale, markerSize, color, onItemClick', item,
            useVoronoiInteraction)

\* the InteractionProvider publishes another pointed-at item; Scatter, a
\* consumer of the context, renders again
ContextSetItem ==
  \E it \in Items \ {item} :
    /\ item' = it
    /\ Changed("item", "context")
    /\ UNCHANGED <<series, xScale, yScale, markerSize, color, onItemClick,
                   useVoronoiInteraction, varying>>
    /\ Render(series, xScale, yScale, markerSize, color, onItemClick, item',
              useVoronoiInteraction)

\* the InteractionProvider switches voronoi interaction
ContextSetVoronoi ==
  /\ useVoronoiInteraction' = ~useVoronoiInteraction
  /\ Changed("useVoronoiInteraction", "context")
  /\ UNCHANGED <<series, xScale, yScale, markerSize, color, onItemClick, item,
                 varying>>
  /\ Render(series, xScale, yScale, markerSize, color, onItemClick, item,
            useVoronoiInteraction')

\* the parent renders again with the props and context as they are
Rerender ==
  /\ lastOp' = [op |-> "render", marker |-> 0]
  /\ UNCHANGED <<series, xScale, yScale, markerSize, color, onItemClick, item,
                 useVoronoiInteraction, varying>>
  /\ Render(series, xScale, yScale, markerSize, color, onItemClick, item,
            useVoronoiInteraction)

\* a click that also makes the clicked point the pointed-at item
ClickDispatch ==
  \E k \in 1..Len(markers) :
    /\ clickCalls' = IF markers[k].onClick = NoHandler THEN <<>>
                     ELSE <<markers[k].onClick>>
    /\ item' = [type |-> "scatter", seriesId |-> series.id,
                dataIndex |-> cleanDataMemo.value[k].dataIndex]
    /\ lastOp' = [op |-> "click", marker |-> k]
    /\ UNCHANGED <<series, xScale, yScale, markerSize, color, onItemClick,
                   useVoronoiInteraction, highlightScopeMemo,
                   cleanDataMemo, recomputed, markers, varying>>

\* lines 113-121: a click on marker k runs its onClick, if it has one
Click ==
  \E k \in 1..Len(markers) :
    /\ clickCalls' = IF markers[k].onClick = NoHandler THEN <<>>
                     ELSE <<markers[k].onClick>>
    /\ lastOp' = [op |-> "click", marker |-> k]
    /\ UNCHANGED <<series, xScale, yScale, markerSize, color, onItemClick,
                   item, useVoronoiInteraction, highlightScopeMemo,
                   cleanDataMemo, recomputed, markers, varying>>

\* line 123: the pointer enters or leaves marker k and the marker's hover
\* handler, if it has one, runs; publishing another pointed-at item is the
\* InteractionProvider's step (ContextSetItem)
PointerEvent ==
  \E k \in 1..Len(markers) :
    /\ lastOp' = [op |-> "pointer", marker |-> k]
    /\ clickCalls' = <<>>
    /\ UNCHANGED <<series, xScale, yScale, markerSize, color, onItemClick,
                   item, useVoronoiInteraction, highlightScopeMemo,
                   cleanDataMemo, recomputed, markers, varying>>

Next ==
  \/ SetData
  \/ SetSeriesId
  \/ SetHighlightScope
  \/ SetDisableHover
  \/ SetXScale
  \/ SetYScale
  \/ SetMarkerSize
  \/ SetColor
  \/ SetOnItemClick
  \/ ContextSetItem
  \/ ContextSetVoronoi
  \/ Rerender
  \/ Click
  \/ PointerEvent

Spec == Init /\ [][Next]_vars

(***************************************************************************)
(* What the properties speak about.                                        *)
(***************************************************************************)
records == cleanDataMemo.value

Lo(range) == CHOOSE m \in {range[1], range[2]} :
               \A v \in {range[1], range[2]} : m <= v
Hi(range) == CHOOSE m \in {range[1], range[2]} :
               \A v \in {range[1], range[2]} : m >= v

PixelX(n) == ScaleApply(xScale, series.data[n].x)
PixelY(n) == ScaleApply(yScale, series.data[n].y)

\* data point n (1-based) lies within both pixel ranges, bounds included
Visible(n) ==
  /\ Lo(xScale.range) <= PixelX(n) /\ PixelX(n) <= Hi(xScale.range)
  /\ Lo(yScale.range) <= PixelY(n) /\ PixelY(n) <= Hi(yScale.range)

\* the markers that stand for data point n
MarkersOf(n) ==
  {k \in 1..Len(markers) : k <= Len(records) /\ records[k].dataIndex = n - 1}

\* the index in series.data of the k-th visible point
OriginalIndex(k) ==
  CHOOSE n \in 1..Len(series.data) :
    /\ Visible(n)
    /\ Cardinality({j \in 1..n : Visible(j)}) = k

\* the records a render pass computes from the props and the context as
\* they are now, with no memo cell involved
FreshRecords(skip) ==
  LET scope == MergeHighlightScope(series.highlightScope)
  IN CleanData(xScale, yScale, series.data, series.id, item, scope,
               [ref |-> 0, skip |-> skip, scope |-> scope])

Visual(recs) ==
  [k \in 1..Len(recs) |->
     [dataIndex |-> recs[k].dataIndex, x |-> recs[k].x, y |-> recs[k].y,
      isHighlighted |-> recs[k].isHighlighted, isFaded |-> recs[k].isFaded]]

\* C1: a marker is rendered for data point i if and only if its pixel
\* position lies within the x range and the y range, bounds included,
\* whichever way a range runs.
C1_MarkerIffInRange ==
  /\ Len(markers) = Len(records)
  /\ \A n \in 1..Len(series.data) : (MarkersOf(n) # {}) <=> Visible(n)

\* C1 witness: with a descending x range one point is drawn on the edge of
\* the range and another one, beyond the range, is dropped.
C1_Witness ==
  /\ xScale.range[1] > xScale.range[2]
  /\ \E n, m \in 1..Len(series.data) :
       /\ MarkersOf(n) # {}
       /\ PixelX(n) = Hi(xScale.range)
       /\ MarkersOf(m) = {}
       /\ PixelX(m) < Lo(xScale.range)

\* C2: with onItemClick supplied a click on a marker calls it exactly once
\* with {type: 'scatter', seriesId: series.id, dataIndex: i}, i the point's
\* index in series.data; without onItemClick no marker has a click callback.
C2_ClickIdentifier ==
  /\ onItemClick =>
       \A k \in 1..Len(markers) :
         markers[k].onClick = [type |-> "scatter", seriesId |-> series.id,
                               dataIndex |-> OriginalIndex(k) - 1]
  /\ (onItemClick /\ lastOp.op = "click") =>
       clickCalls = << [type |-> "scatter", seriesId |-> series.id,
                        dataIndex |-> OriginalIndex(lastOp.marker) - 1] >>
  /\ ~onItemClick =>
       /\ \A k \in 1..Len(markers) : markers[k].onClick = NoHandler
       /\ clickCalls = <<>>

\* C2 witness: a click on a marker whose place among the markers is not its
\* index in series.data has called onItemClick.
C2_Witness ==
  /\ lastOp.op = "click"
  /\ onItemClick
  /\ Len(clickCalls) = 1
  /\ clickCalls[1].dataIndex # lastOp.marker - 1

\* C3: which points are drawn, where, and their highlighted and faded flags
\* are a function of the scales, the series data and the interaction context
\* alone, whatever was rendered before.
C3_VisualStatePure ==
  /\ Len(markers) = Len(records)
  /\ Visual(records) = Visual(FreshRecords(FALSE))
  /\ \A k \in 1..Len(markers) :
       markers[k].x = Visual(FreshRecords(FALSE))[k].x
       /\ markers[k].y = Visual(FreshRecords(FALSE))[k].y

\* C3 witness: a render pass that followed a change of the pointed-at item
\* shows a highlighted and a faded point.
C3_Witness ==
  /\ lastOp.op = "context"
  /\ \E k, j \in 1..Len(records) :
       records[k].isHighlighted /\ records[j].isFaded

C6_NotHighlightedAndFaded ==
  \A k \in 1..Len(records) : ~(records[k].isHighlighted /\ records[k].isFaded)

\* C6 witness: a highlighted point that the fading rule alone would fade.
C6_Witness ==
  \E k \in 1..Len(records) :
    /\ records[k].isHighlighted
    /\ GetIsFaded(item, [type |-> "scatter", seriesId |-> series.id,
                         dataIndex |-> records[k].dataIndex],
                  highlightScopeMemo.value)

\* C7: radius is 1.2 * markerSize for a highlighted point and markerSize
\* otherwise, opacity 0.3 for a faded point and 1 otherwise, a highlighted
\* marker has opacity 1, and fill is the color prop (radius and opacity in
\* tenths).
C7_MarkerStyle ==
  /\ Len(markers) = Len(records)
  /\ \A k \in 1..Len(markers) :
       /\ records[k].isHighlighted => markers[k].r = 12 * markerSize
       /\ ~records[k].isHighlighted => markers[k].r = 10 * markerSize
       /\ records[k].isFaded => markers[k].opacity = 3
       /\ ~records[k].isFaded => markers[k].opacity = 10
       /\ records[k].isHighlighted => markers[k].opacity = 10
       /\ markers[k].fill = color

\* C7 witness: a highlighted and a faded marker of size 2 in blue.
C7_Witness ==
  /\ markerSize = 2
  /\ color = "blue"
  /\ \E k, j \in 1..Len(markers) :
       records[k].isHighlighted /\ records[j].isFaded

\* C8: the markers are an order-preserving subsequence of series.data: one
\* marker per visible point, in increasing dataIndex order, each with the id
\* and mapped position of its data point, and never more than data points.
C8_OrderedSubsequence ==
  /\ Len(markers) = Len(records)
  /\ Len(markers) <= Len(series.data)
  /\ \A n \in 1..Len(series.data) :
       Cardinality(MarkersOf(n)) = IF Visible(n) THEN 1 ELSE 0
  /\ \A k \in 1..Len(records) :
       /\ records[k].dataIndex \in 0..(Len(series.data) - 1)
       /\ k > 1 => records[k - 1].dataIndex < records[k].dataIndex
       /\ LET n == records[k].dataIndex + 1
          IN /\ markers[k].key = series.data[n].id
             /\ markers[k].x = PixelX(n)
             /\ markers[k].y = PixelY(n)

\* C8 witness: a render pass for other data drew two markers of two
\* different data points.
C8_Witness ==
  /\ lastOp.op = "render"
  /\ series.data # BaseData
  /\ Len(markers) = 2
  /\ markers[1].key # markers[2].key

\* C9: the effective scope is {highlighted: 'item', faded: 'global'}
\* overridden field by field by series.highlightScope, and both of its
\* fields are always defined.
C9_ScopeMergedAndDefined ==
  LET given == series.highlightScope
      scope == highlightScopeMemo.value
  IN /\ scope.highlighted =
          IF given.highlighted = "absent" THEN "item" ELSE given.highlighted
     /\ scope.faded = IF given.faded = "absent" THEN "global" ELSE given.faded
     /\ scope.highlighted # "undefined"
     /\ scope.faded # "undefined"

\* C10: the markers have no hover handlers exactly when useVoronoiInteraction
\* or series.disableHover is set, and leaving them out changes neither the
\* points drawn, nor their flags, nor the click callback.
C10_SkipOnlyDropsHover ==
  /\ \A k \in 1..Len(markers) :
       markers[k].hover = ~(useVoronoiInteraction \/ series.disableHover)
  /\ Visual(records) = Visual(FreshRecords(FALSE))
  /\ \A k \in 1..Len(markers) :
       markers[k].onClick = NoHandler <=> ~onItemClick

\* C10 witness: hover handlers left out by disableHover alone, on markers
\* that have a click callback, one of them highlighted.
C10_Witness ==
  /\ series.disableHover
  /\ ~useVoronoiInteraction
  /\ onItemClick
  /\ \E k \in 1..Len(markers) : ~markers[k].hover /\ records[k].isHighlighted

====
